---- MODULE Spec2Model ----
(***************************************************************************)
(* Model of the image compression pipeline of compress-image.              *)
(*                                                                         *)
(* The repository holds four implementations of the compress operation:    *)
(*   "router"    the tRPC mutation of src/server/api/routers/compress.ts   *)
(*               (source given as a URL),                                  *)
(*   "routerB64" its predecessor (unnamed/part_005, source given inline as *)
(*               base64),                                                  *)
(*   "route"     the /api/compress POST handler (unnamed/part_002, second  *)
(*               listing, conversion by a POST to the phase-1 location),   *)
(*   "routeGet"  the first listing of that handler (conversion branch      *)
(*               issues a plain GET of the phase-1 location).              *)
(* One behaviour is one request handled by one implementation.  A handler  *)
(* runs from one await to the next as one atomic step; the external        *)
(* service's answers are drawn nondeterministically.                       *)
(*                                                                         *)
(* Byte sizes range over 1..MaxSize: an empty source or an empty artifact  *)
(* is not accepted/produced by the remote service.                         *)
(***************************************************************************)
EXTENDS Integers, Sequences, FiniteSets, TLC

\* ------------------------------------------------------------------ bounds
MaxSize == 5

\* --------------------------------------------------------------- constants
SUPPORTED_MIME_TYPES ==
    {"image/png", "image/jpeg", "image/jpg", "image/webp", "image/avif"}

\* what a caller may send: the enum plus one MIME type outside of it
MimeInputs == SUPPORTED_MIME_TYPES \cup {"image/gif"}

\* options.preserveMetadata as sent by the caller
PreserveInputs == {"absent", "true", "false"}

Impls == {"router", "routerB64", "route", "routeGet"}
Routers == {"router", "routerB64"}
Routes == {"route", "routeGet"}

Sizes == 1..MaxSize

\* messages of errors thrown by the runtime rather than by the handlers
NetworkErrorMessage == "fetch failed"
SyntaxErrorMessage == "Unexpected token in JSON"
ZodErrorMessage == "Invalid enum value"

\* location references handed out by the remote service
ShrinkEndpoint == "https://api.tinify.com/shrink"
Loc1 == "output-url-phase-1"
Loc2 == "output-url-phase-2"
ImageUrl == "imageUrl"

\* --------------------------------------------------------- pure functions
\* Math.max(a, b)
MathMax(a, b) == IF a >= b THEN a ELSE b

\* Math.round((n / d) * 100) for integers n and d > 0: the nearest integer,
\* a tie going towards +Infinity (exact for the sizes of the model, where
\* the double arithmetic has no rounding error at a tie).
RoundPercent(n, d) == (200 * n + d) \div (2 * d)

\* finalImageBuffer.byteLength / imageBuffer.byteLength < 0.8
SizeRatioBelow80(final, original) == 5 * final < 4 * original

\* SchemaAccepts with outputFormat left as a free string
SchemaAcceptsMimeOnly(in) == in.mimeType \in SUPPORTED_MIME_TYPES

\* compressionSchema: z.enum(SUPPORTED_MIME_TYPES) on both MIME fields
SchemaAccepts(in) ==
    /\ in.mimeType \in SUPPORTED_MIME_TYPES
    /\ in.outputFormat \in SUPPORTED_MIME_TYPES

\* input.outputFormat !== input.mimeType
NeedsConvert(in) == in.outputFormat # in.mimeType

\* input.options?.preserveMetadata ? ["copyright","creation","location"] : []
RouterPreserve(in) ==
    IF in.preserveMetadata = "true"
    THEN {"copyright", "creation", "location"} ELSE {}

\* the handler's own apiOptions literal
RoutePreserve(in) == {"copyright", "creation", "location"}

\* ------------------------------------------------------------ remote calls
NoConvert == "none"

Call(method, target, body, convert, preserve) ==
    [method |-> method, target |-> target, body |-> body,
     convert |-> convert, preserve |-> preserve, status |-> "pending"]

SourceGet == Call("GET", ImageUrl, "none", NoConvert, {})
ShrinkPost == Call("POST", ShrinkEndpoint, "image", NoConvert, {})
ConvertPost(in, preserve) ==
    Call("POST", Loc1, "options", in.outputFormat, preserve)
\* FinalGet that always goes to the phase-1 location
FinalGetPhase1(url) == Call("GET", Loc1, "none", NoConvert, {})
FinalGet(url) == Call("GET", url, "none", NoConvert, {})

\* fetch(...): the request leaves, the handler waits for it
Issue(log, c) == Append(log, c)

\* await: the last call issued settles with the given outcome
Settle(log, st) == [log EXCEPT ![Len(log)].status = st]

\* ------------------------------------------------- answers of the service
Failures == {[status |-> "notok"], [status |-> "throw"]}

\* GET of bytes: ok with a body, non-success status, or a network error
BytesResponses == Failures \cup [status : {"ok"}, size : Sizes]

\* POST shrink: ok with a descriptor (or an unparsable body), non-success
\* status with a JSON error body (message possibly empty) or with a body
\* that response.json() / errorData.message cannot read (not JSON, or JSON
\* null), or a network error
ShrinkResponses ==
    [status : {"ok"}, parses : {TRUE}, size : Sizes,
     type : SUPPORTED_MIME_TYPES \cup {""}]
    \cup {[status |-> "ok", parses |-> FALSE]}
    \cup [status : {"notok"}, parses : {TRUE},
          message : {"", "Input file is corrupt"}]
    \cup {[status |-> "notok", parses |-> FALSE]}
    \cup {[status |-> "throw"]}

\* POST convert: ok with a JSON descriptor (parsable or not), ok with the
\* image bytes, non-success status, or a network error
ConvertResponses ==
    [status : {"ok"}, json : {TRUE}, parses : BOOLEAN]
    \cup [status : {"ok"}, json : {FALSE}, size : Sizes]
    \cup Failures

\* ----------------------------------------------------------------- results
NoResult == [kind |-> "none"]
NoData == [url |-> "", size |-> 0, type |-> ""]

\* arguments: originalSize, compressedSize, savedBytes, compressionRatio,
\* MIME and byte length of the data reference, originalType, outputType
Success(oSize, cSize, saved, ratio, dMime, dBytes, oType, outType) ==
    [kind |-> "success",
     originalSize |-> oSize,
     compressedSize |-> cSize,
     savedBytes |-> saved,
     compressionRatio |-> ratio,
     compressedImage |-> [mime |-> dMime, bytes |-> dBytes],
     originalType |-> oType,
     outputType |-> outType]

Failure(code, message) ==
    [kind |-> "error", code |-> code, message |-> message]

\* new TRPCError({ code, message })
TRPCError(code, message) == [trpc |-> TRUE, code |-> code, message |-> message]
\* any other thrown Error
Thrown(message) == [trpc |-> FALSE, code |-> "", message |-> message]

\* catch (error) of the tRPC mutation
RouterCatch(e) ==
    IF e.trpc THEN Failure(e.code, e.message)
    ELSE Failure("INTERNAL_SERVER_ERROR", e.message)

\* catch (error) of the POST handler
RouteCatch(e) == Failure("500", e.message)

\* NextResponse.json({ error }, { status: 400 })
RouteReject(message) == Failure("400", message)

\* impl         the implementation handling the request
\* input        the request as received
\* pc           the await the handler is suspended at
\* imageBuffer  byte length of the source image (0: not read yet)
\* data         the phase-1 descriptor
\* finalUrl     the location the final GET goes to
\* errorData    the parsed error body of a rejected shrink POST
\* finalBytes   byte length of the final image bytes (0: not read yet)
\* calls        the remote calls issued so far, with their outcomes
\* shape        how the phase-2 response was classified by content type
\* sanity       outcome of the PNG size check
\* result       what the handler returned or threw
VARIABLES impl, input, pc, imageBuffer, data, finalUrl, errorData,
          finalBytes, calls, shape, sanity, result

\* State of one run of preprocessImage:
\* pImpl      the implementation ("page", "utils", "worker")
\* file       the asset handed in
\* ppc        the await the preprocessor is suspended at
\* img        the decoded bitmap's dimensions
\* target     width and height computed for the canvas
\* ops        what was done to the asset: decode, render, encode
\* failed     the step that failed, if any
\* delivered  what the caller of the preprocessor receives
VARIABLES pImpl, file, ppc, img, target, ops, failed, delivered

\* State of one request on a page (handleFileSelect and its callbacks):
\* page               "pageMutation" (tRPC mutation, 3-second animation) or
\*                    "pageFetch" (upload + fetch, 15-20 second animation)
\* cpc                the await handleFileSelect is suspended at
\* picked             type and size of the file the user picked
\* isLoading, error, stage, progress, compressionResult
\*                    the React state of the page; progress is counted in
\*                    units of 1/PScale percent
\* prior              compressionResult before the request
\* now                the clock of the animation frames, in seconds
\* start              the animation's start / startTime; 0 is null
\* scheduled          a requested animation frame is pending
\* loaded             bytes reported by the last read or upload event
\* writer             the callback that wrote progress last
\* outcome            how the request ended
\* failedStep         the step whose failure ended it
VARIABLES page, cpc, picked, isLoading, error, stage, progress,
          compressionResult, prior, now, start, scheduled, loaded,
          writer, outcome, failedStep

\* Several files dropped on the fetch page, one after the other; the React
\* state above is shared, each call of handleFileSelect has its own locals:
\* reqs       per call: the await it is suspended at (pc), the file, its
\*            startTime (start), whether its animation frame is pending
\*            (frame), the bytes its upload reported (loaded), its outcome
\* touchedBy  the call that wrote the React state last (0: none)
\* resultOf   the call that produced compressionResult (0: none)
VARIABLES reqs, touchedBy, resultOf

serverVars == <<impl, input, pc, imageBuffer, data, finalUrl, errorData,
                finalBytes, calls, shape, sanity, result>>

preVars == <<pImpl, file, ppc, img, target, ops, failed, delivered>>

cliVars == <<page, cpc, picked, isLoading, error, stage, progress,
             compressionResult, prior, now, start, scheduled, loaded,
             writer, outcome, failedStep>>

dropVars == <<reqs, touchedBy, resultOf>>

vars == <<serverVars, preVars, cliVars, dropVars>>

\* no file has been dropped
DropParked ==
    /\ reqs = << >>
    /\ touchedBy = 0
    /\ resultOf = 0

\* useState<string | null>(null)
NoError == ""

\* no request is going on in a page
CliParked ==
    /\ page = "pageMutation"
    /\ cpc = "parked"
    /\ picked = [type |-> "", size |-> 0]
    /\ isLoading = FALSE
    /\ error = NoError
    /\ stage = "idle"
    /\ progress = 0
    /\ compressionResult = "none"
    /\ prior = "none"
    /\ now = 0
    /\ start = 0
    /\ scheduled = FALSE
    /\ loaded = 0
    /\ writer = "none"
    /\ outcome = "none"
    /\ failedStep = "none"

NoDims == [width |-> 0, height |-> 0]
Nothing == [kind |-> "none"]

\* no preprocessing is going on
PreParked ==
    /\ pImpl = "page"
    /\ file = [size |-> 0, type |-> ""]
    /\ ppc = "parked"
    /\ img = NoDims
    /\ target = NoDims
    /\ ops = {}
    /\ failed = "none"
    /\ delivered = Nothing

NoErrorData == [read |-> FALSE, parses |-> FALSE, message |-> ""]

\* errorData = await response.json() on a rejected shrink POST
ErrorDataOf(r) ==
    IF r.status # "notok" THEN NoErrorData
    ELSE [read |-> TRUE, parses |-> r.parses,
          message |-> IF r.parses THEN r.message ELSE ""]

\* byte length of the image body of a phase-2 response, if it is one
ConvertBytesOf(r) ==
    IF r.status # "ok" THEN 0 ELSE IF r.json THEN 0 ELSE r.size

\* (await r.arrayBuffer()).byteLength of a response with a body
BytesOf(r) == IF r.status = "ok" THEN r.size ELSE 0

Inputs == [mimeType : MimeInputs, outputFormat : MimeInputs,
           preserveMetadata : PreserveInputs]

Init ==
    /\ impl \in Impls
    /\ input \in Inputs
    /\ pc = "start"
    /\ imageBuffer = 0
    /\ data = NoData
    /\ finalUrl = ""
    /\ errorData = NoErrorData
    /\ finalBytes = 0
    /\ calls = << >>
    /\ shape = "none"
    /\ sanity = "notEvaluated"
    /\ result = NoResult
    /\ PreParked
    /\ CliParked
    /\ DropParked

\* Stop on a path that neither returns nor throws
StopSilent(st, r) ==
    /\ calls' = Settle(calls, st)
    /\ pc' = "done"
    /\ UNCHANGED result

\* the awaited call settled with st and the handler ends with outcome r
Stop(st, r) ==
    /\ calls' = Settle(calls, st)
    /\ pc' = "done"
    /\ result' = r

\* Go without the await: the next call is issued while the previous one is
\* still in flight
GoNoAwait(c, next) ==
    /\ calls' = Issue(calls, c)
    /\ pc' = next
    /\ UNCHANGED result

\* the awaited call settled with ok, the handler issues c and awaits it
Go(c, next) ==
    /\ calls' = Issue(Settle(calls, "ok"), c)
    /\ pc' = next
    /\ UNCHANGED result

\* ===================================================================
\* "router": compressRouter.compress of src/server/api/routers/compress.ts
\* ===================================================================

\* RouterBinaryResult with the ratio computed from the converted size
RouterBinaryResultRatio(in, converted) ==
    Success(converted, converted, 0, RoundPercent(converted, converted),
            in.outputFormat, converted, in.mimeType, in.outputFormat)

\* the result literal of the binary phase-2 branch; imageBuffer there is
\* the inner constant holding the converted bytes
RouterBinaryResult(in, converted) ==
    Success(converted, converted, 0, 0,
            in.outputFormat, converted, in.mimeType, in.outputFormat)

\* the result literal built after the final fetch
RouterResult(in, original, final) ==
    Success(original, final,
            MathMax(0, original - final),
            RoundPercent(original - final, original),
            in.outputFormat, final, in.mimeType, in.outputFormat)

\* .input(compressionSchema), then fetch(input.imageUrl)
Compress_start ==
    /\ UNCHANGED <<preVars, cliVars, dropVars>>
    /\ impl = "router" /\ pc = "start"
    /\ IF SchemaAccepts(input)
       THEN /\ calls' = Issue(calls, SourceGet)
            /\ pc' = "awaitSource"
            /\ UNCHANGED result
       ELSE /\ pc' = "done"
            /\ result' = Failure("BAD_REQUEST", ZodErrorMessage)
            /\ UNCHANGED calls
    /\ UNCHANGED <<impl, input, errorData, finalBytes, imageBuffer, data,
                   finalUrl, shape, sanity>>

\* imageResponse arrives; on success the shrink POST is sent
Compress_imageResponse ==
    /\ UNCHANGED <<preVars, cliVars, dropVars>>
    /\ impl = "router" /\ pc = "awaitSource"
    /\ \E r \in BytesResponses :
        CASE r.status = "throw" ->
                /\ Stop("throw", RouterCatch(Thrown(NetworkErrorMessage)))
                /\ UNCHANGED imageBuffer
          [] r.status = "notok" ->
                /\ Stop("notok",
                        RouterCatch(Thrown("Failed to fetch image from URL")))
                /\ UNCHANGED imageBuffer
          [] r.status = "ok" ->
                /\ imageBuffer' = r.size
                /\ Go(ShrinkPost, "awaitShrink")
    /\ UNCHANGED <<impl, input, errorData, finalBytes, data, finalUrl,
                   shape, sanity>>

\* RouterShrinkError that drops the upstream message
RouterShrinkErrorDefault(r) ==
    CASE r.status = "throw" -> RouterCatch(Thrown(NetworkErrorMessage))
      [] r.status = "notok" /\ ~r.parses ->
            RouterCatch(Thrown(SyntaxErrorMessage))
      [] r.status = "notok" /\ r.parses ->
            RouterCatch(TRPCError("BAD_REQUEST", "Failed to compress image"))
      [] r.status = "ok" /\ ~r.parses ->
            RouterCatch(Thrown(SyntaxErrorMessage))

\* the outcome of a shrink POST that did not return a descriptor
RouterShrinkError(r) ==
    CASE r.status = "throw" -> RouterCatch(Thrown(NetworkErrorMessage))
      [] r.status = "notok" /\ ~r.parses ->
            RouterCatch(Thrown(SyntaxErrorMessage))
      [] r.status = "notok" /\ r.parses ->
            RouterCatch(TRPCError("BAD_REQUEST",
                IF r.message # "" THEN r.message
                ELSE "Failed to compress image"))
      [] r.status = "ok" /\ ~r.parses ->
            RouterCatch(Thrown(SyntaxErrorMessage))

\* the call that follows a successful shrink
RouterAfterShrink(in) ==
    IF NeedsConvert(in) THEN ConvertPost(in, RouterPreserve(in))
    ELSE FinalGet(Loc1)

\* response (shrink) arrives; convert POST or final GET follows.  The code
\* from the shrink POST to the end of the conversion branch is the same in
\* both listings of the mutation (part_005 lines 76-133).
Compress_response ==
    /\ UNCHANGED <<preVars, cliVars, dropVars>>
    /\ impl \in Routers /\ pc = "awaitShrink"
    /\ \E r \in ShrinkResponses :
        IF r.status = "ok" /\ r.parses
        THEN /\ data' = [url |-> Loc1, size |-> r.size, type |-> r.type]
             /\ finalUrl' = Loc1
             /\ UNCHANGED errorData
             /\ Go(RouterAfterShrink(input),
                   IF NeedsConvert(input) THEN "awaitConvert"
                   ELSE "awaitFinal")
        ELSE /\ Stop(r.status, RouterShrinkError(r))
             /\ errorData' = ErrorDataOf(r)
             /\ UNCHANGED <<data, finalUrl>>
    /\ UNCHANGED <<impl, input, finalBytes, imageBuffer, shape, sanity>>

\* RouterConvertError that throws a plain Error for a rejected conversion
RouterConvertErrorPlain(r) ==
    IF r.status = "throw" THEN RouterCatch(Thrown(NetworkErrorMessage))
    ELSE RouterCatch(Thrown("Failed to convert image format"))

\* the outcome of a convert POST that failed
RouterConvertError(r) ==
    IF r.status = "throw" THEN RouterCatch(Thrown(NetworkErrorMessage))
    ELSE RouterCatch(TRPCError("BAD_REQUEST",
                               "Failed to convert image format"))

\* convertResponse arrives; content type decides descriptor or bytes
Compress_convertResponse ==
    /\ UNCHANGED <<preVars, cliVars, dropVars>>
    /\ impl \in Routers /\ pc = "awaitConvert"
    /\ \E r \in ConvertResponses :
        /\ finalBytes' = ConvertBytesOf(r)
        /\ CASE r.status # "ok" ->
                /\ Stop(r.status, RouterConvertError(r))
                /\ UNCHANGED <<finalUrl, shape>>
          [] r.status = "ok" /\ r.json /\ ~r.parses ->
                /\ shape' = "json"
                /\ Stop("ok", RouterCatch(Thrown(SyntaxErrorMessage)))
                /\ UNCHANGED finalUrl
          [] r.status = "ok" /\ r.json /\ r.parses ->
                /\ shape' = "json"
                /\ finalUrl' = Loc2
                /\ Go(FinalGet(Loc2), "awaitFinal")
          [] r.status = "ok" /\ ~r.json ->
                /\ shape' = "binary"
                /\ Stop("ok", RouterBinaryResult(input, r.size))
                /\ UNCHANGED finalUrl
    /\ UNCHANGED <<impl, input, errorData, imageBuffer, data, sanity>>

\* compressedImageResponse arrives; the result is assembled
Compress_compressedImageResponse ==
    /\ UNCHANGED <<preVars, cliVars, dropVars>>
    /\ impl = "router" /\ pc = "awaitFinal"
    /\ \E r \in BytesResponses :
        /\ finalBytes' = BytesOf(r)
        /\ CASE r.status = "throw" ->
                Stop("throw", RouterCatch(Thrown(NetworkErrorMessage)))
          [] r.status = "notok" ->
                Stop("notok", RouterCatch(TRPCError("INTERNAL_SERVER_ERROR",
                                  "Failed to fetch compressed image")))
          [] r.status = "ok" ->
                Stop("ok", RouterResult(input, imageBuffer, r.size))
    /\ UNCHANGED <<impl, input, errorData, imageBuffer, data, finalUrl,
                   shape, sanity>>

\* ===================================================================
\* "routerB64": compressRouter.compress of unnamed/part_005
\* ===================================================================

\* the result literal built after the final fetch: sizes come from the
\* phase-1 descriptor d, the data reference carries the source MIME type
RouterB64Result(in, original, d, final) ==
    Success(original, d.size,
            original - d.size,
            RoundPercent(original - d.size, original),
            in.mimeType, final, in.mimeType,
            IF d.type # "" THEN d.type ELSE in.mimeType)

\* .input(compressionSchema), Buffer.from(base64Data), then the shrink POST
CompressB64_start ==
    /\ UNCHANGED <<preVars, cliVars, dropVars>>
    /\ impl = "routerB64" /\ pc = "start"
    /\ IF SchemaAccepts(input)
       THEN /\ \E n \in Sizes : imageBuffer' = n
            /\ calls' = Issue(calls, ShrinkPost)
            /\ pc' = "awaitShrink"
            /\ UNCHANGED result
       ELSE /\ pc' = "done"
            /\ result' = Failure("BAD_REQUEST", ZodErrorMessage)
            /\ UNCHANGED <<calls, imageBuffer>>
    /\ UNCHANGED <<impl, input, errorData, finalBytes, data, finalUrl,
                   shape, sanity>>

\* compressedImageResponse arrives; the result is assembled
CompressB64_compressedImageResponse ==
    /\ UNCHANGED <<preVars, cliVars, dropVars>>
    /\ impl = "routerB64" /\ pc = "awaitFinal"
    /\ \E r \in BytesResponses :
        /\ finalBytes' = BytesOf(r)
        /\ CASE r.status = "throw" ->
                Stop("throw", RouterCatch(Thrown(NetworkErrorMessage)))
          [] r.status = "notok" ->
                Stop("notok", RouterCatch(TRPCError("INTERNAL_SERVER_ERROR",
                                  "Failed to fetch compressed image")))
          [] r.status = "ok" ->
                Stop("ok", RouterB64Result(input, imageBuffer, data, r.size))
    /\ UNCHANGED <<impl, input, errorData, imageBuffer, data, finalUrl,
                   shape, sanity>>

\* ===================================================================
\* "route" and "routeGet": POST of unnamed/part_002 (both listings)
\* ===================================================================

\* the result literal of the no-conversion path
RouteResult(in, original, final) ==
    Success(original, final,
            MathMax(0, original - final),
            RoundPercent(original - final, original),
            in.mimeType, final, in.mimeType, in.mimeType)

\* the result literal of the conversion path
RouteConvertedResult(in, original, final) ==
    Success(original, final,
            MathMax(0, original - final),
            RoundPercent(original - final, original),
            in.outputFormat, final, in.mimeType, in.outputFormat)

\* the PNG size check
RouteSuspect(in, original, final) ==
    /\ in.outputFormat = "image/png"
    /\ SizeRatioBelow80(final, original)

\* end of the conversion branch of "route": size check, then the result
RouteConverted(in, original, final) ==
    IF RouteSuspect(in, original, final)
    THEN RouteReject("PNG conversion resulted in unexpected quality loss")
    ELSE RouteConvertedResult(in, original, final)

\* compressionSchema.parse(input), then fetch(validatedInput.imageUrl)
POST_start ==
    /\ UNCHANGED <<preVars, cliVars, dropVars>>
    /\ impl \in Routes /\ pc = "start"
    /\ IF SchemaAccepts(input)
       THEN /\ calls' = Issue(calls, SourceGet)
            /\ pc' = "awaitSource"
            /\ UNCHANGED result
       ELSE /\ pc' = "done"
            /\ result' = RouteCatch(Thrown(ZodErrorMessage))
            /\ UNCHANGED calls
    /\ UNCHANGED <<impl, input, errorData, finalBytes, imageBuffer, data,
                   finalUrl, shape, sanity>>

\* imageResponse arrives; on success the shrink POST is sent
POST_imageResponse ==
    /\ UNCHANGED <<preVars, cliVars, dropVars>>
    /\ impl \in Routes /\ pc = "awaitSource"
    /\ \E r \in BytesResponses :
        CASE r.status = "throw" ->
                /\ Stop("throw", RouteCatch(Thrown(NetworkErrorMessage)))
                /\ UNCHANGED imageBuffer
          [] r.status = "notok" ->
                /\ Stop("notok", RouteReject("Failed to fetch image"))
                /\ UNCHANGED imageBuffer
          [] r.status = "ok" ->
                /\ imageBuffer' = r.size
                /\ Go(ShrinkPost, "awaitShrink")
    /\ UNCHANGED <<impl, input, errorData, finalBytes, data, finalUrl,
                   shape, sanity>>

\* the outcome of a shrink POST that did not return a descriptor
RouteShrinkError(r) ==
    CASE r.status = "throw" -> RouteCatch(Thrown(NetworkErrorMessage))
      [] r.status = "notok" /\ ~r.parses ->
            RouteCatch(Thrown(SyntaxErrorMessage))
      [] r.status = "notok" /\ r.parses ->
            RouteReject(IF r.message # "" THEN r.message
                        ELSE "Failed to compress image")
      [] r.status = "ok" /\ ~r.parses ->
            RouteCatch(Thrown(SyntaxErrorMessage))

\* the call that follows a successful shrink, second listing
RouteAfterShrink(in) ==
    IF NeedsConvert(in) THEN ConvertPost(in, RoutePreserve(in))
    ELSE FinalGet(Loc1)

\* the call that follows a successful shrink, first listing: a GET of the
\* phase-1 location on both branches
RouteGetAfterShrink(in) == FinalGet(Loc1)

\* response (shrink) arrives; the conversion branch or the final GET follows
POST_response ==
    /\ UNCHANGED <<preVars, cliVars, dropVars>>
    /\ impl \in Routes /\ pc = "awaitShrink"
    /\ \E r \in ShrinkResponses :
        IF r.status = "ok" /\ r.parses
        THEN /\ data' = [url |-> Loc1, size |-> r.size, type |-> r.type]
             /\ UNCHANGED errorData
             /\ Go(IF impl = "route" THEN RouteAfterShrink(input)
                   ELSE RouteGetAfterShrink(input),
                   IF NeedsConvert(input) THEN "awaitConvert"
                   ELSE "awaitFinal")
        ELSE /\ Stop(r.status, RouteShrinkError(r))
             /\ errorData' = ErrorDataOf(r)
             /\ UNCHANGED data
    /\ UNCHANGED <<impl, input, finalBytes, imageBuffer, finalUrl, shape,
                   sanity>>

\* the sanity check as the conversion branch of "route" leaves it
SanityOf(in, original, final) ==
    IF in.outputFormat # "image/png" THEN "notApplicable"
    ELSE IF SizeRatioBelow80(final, original) THEN "failed" ELSE "passed"

\* the outcome of a convert request that failed
RouteConvertError(r) ==
    IF r.status = "throw" THEN RouteCatch(Thrown(NetworkErrorMessage))
    ELSE RouteReject("Failed to convert image format")

\* convertResponse of "route" arrives; content type decides
POST_convertResponse ==
    /\ UNCHANGED <<preVars, cliVars, dropVars>>
    /\ impl = "route" /\ pc = "awaitConvert"
    /\ \E r \in ConvertResponses :
        /\ finalBytes' = ConvertBytesOf(r)
        /\ CASE r.status # "ok" ->
                /\ Stop(r.status, RouteConvertError(r))
                /\ UNCHANGED <<shape, sanity>>
          [] r.status = "ok" /\ r.json /\ ~r.parses ->
                /\ shape' = "json"
                /\ Stop("ok", RouteCatch(Thrown(SyntaxErrorMessage)))
                /\ UNCHANGED sanity
          [] r.status = "ok" /\ r.json /\ r.parses ->
                /\ shape' = "json"
                /\ Go(FinalGet(Loc2), "awaitConverted")
                /\ UNCHANGED sanity
          [] r.status = "ok" /\ ~r.json ->
                /\ shape' = "binary"
                /\ sanity' = SanityOf(input, imageBuffer, r.size)
                /\ Stop("ok", RouteConverted(input, imageBuffer, r.size))
    /\ UNCHANGED <<impl, input, errorData, imageBuffer, data, finalUrl>>

\* the inner imageResponse (converted image) of "route" arrives
POST_convertedImageResponse ==
    /\ UNCHANGED <<preVars, cliVars, dropVars>>
    /\ impl = "route" /\ pc = "awaitConverted"
    /\ \E r \in BytesResponses :
        /\ finalBytes' = BytesOf(r)
        /\ CASE r.status = "throw" ->
                /\ Stop("throw", RouteCatch(Thrown(NetworkErrorMessage)))
                /\ UNCHANGED sanity
          [] r.status = "notok" ->
                /\ Stop("notok",
                        RouteReject("Failed to fetch converted image"))
                /\ UNCHANGED sanity
          [] r.status = "ok" ->
                /\ sanity' = SanityOf(input, imageBuffer, r.size)
                /\ Stop("ok", RouteConverted(input, imageBuffer, r.size))
    /\ UNCHANGED <<impl, input, errorData, imageBuffer, data, finalUrl,
                   shape>>

\* convertResponse of "routeGet" arrives: the body is taken as the image
POSTGet_convertResponse ==
    /\ UNCHANGED <<preVars, cliVars, dropVars>>
    /\ impl = "routeGet" /\ pc = "awaitConvert"
    /\ \E r \in BytesResponses :
        /\ finalBytes' = BytesOf(r)
        /\ CASE r.status # "ok" ->
                Stop(r.status, RouteConvertError(r))
          [] r.status = "ok" ->
                Stop("ok", RouteConvertedResult(input, imageBuffer, r.size))
    /\ UNCHANGED <<impl, input, errorData, imageBuffer, data, finalUrl,
                   shape, sanity>>

\* compressedImageResponse arrives (no conversion, both listings)
POST_compressedImageResponse ==
    /\ UNCHANGED <<preVars, cliVars, dropVars>>
    /\ impl \in Routes /\ pc = "awaitFinal"
    /\ \E r \in BytesResponses :
        /\ finalBytes' = BytesOf(r)
        /\ CASE r.status = "throw" ->
                Stop("throw", RouteCatch(Thrown(NetworkErrorMessage)))
          [] r.status = "notok" ->
                Stop("notok", RouteReject("Failed to fetch compressed image"))
          [] r.status = "ok" ->
                Stop("ok", RouteResult(input, imageBuffer, r.size))
    /\ UNCHANGED <<impl, input, errorData, imageBuffer, data, finalUrl,
                   shape, sanity>>

Next ==
    \/ Compress_start
    \/ Compress_imageResponse
    \/ Compress_response
    \/ Compress_convertResponse
    \/ Compress_compressedImageResponse
    \/ CompressB64_start
    \/ CompressB64_compressedImageResponse
    \/ POST_start
    \/ POST_imageResponse
    \/ POST_response
    \/ POST_convertResponse
    \/ POST_convertedImageResponse
    \/ POSTGet_convertResponse
    \/ POST_compressedImageResponse

Spec == Init /\ [][Next]_vars

\* ===================================================================
\* preprocessImage: the page helper (unnamed/part_000, the same code as
\* app/utils/ga.ts) and the web worker (workers/imagePreprocess.ts)
\* ===================================================================

\* ------------------------------------------------------------------ bounds
\* file sizes lie within SizeSpan bytes of the 5 MiB threshold
SizeSpan == 1
\* decoded dimensions: 1..DimLow, within DimSpan of maxDim, twice maxDim,
\* and one very wide value
DimLow == 2
DimSpan == 1
WideDim == 10000

\* --------------------------------------------------------------- constants
FIVE_MIB == 5 * 1024 * 1024
MAX_DIM == 2048

PreImpls == {"page", "utils", "worker"}
Helpers == {"page", "utils"}

FileSizes == (FIVE_MIB - SizeSpan)..(FIVE_MIB + SizeSpan)
FileTypes == {"image/png", "image/jpeg"}
Dims ==
    (1..DimLow) \cup ((MAX_DIM - DimSpan)..(MAX_DIM + DimSpan))
    \cup {2 * MAX_DIM, WideDim}

DecodeErrorMessage == "The source image could not be decoded"
ContextErrorMessage == "Failed to get canvas context"
EncodeErrorMessage == "Failed to encode the canvas"

\* the server is not part of a preprocessing run
ServerParked ==
    /\ impl = "router"
    /\ input = [mimeType |-> "image/png", outputFormat |-> "image/png",
                preserveMetadata |-> "absent"]
    /\ pc = "parked"
    /\ imageBuffer = 0
    /\ data = NoData
    /\ finalUrl = ""
    /\ errorData = NoErrorData
    /\ finalBytes = 0
    /\ calls = << >>
    /\ shape = "none"
    /\ sanity = "notEvaluated"
    /\ result = NoResult

\* --------------------------------------------------------- pure functions
\* PassThrough with a strict comparison
PassThroughStrict(f) == f.size < FIVE_MIB

\* file.size <= 5 * 1024 * 1024
PassThrough(f) == f.size <= FIVE_MIB

\* Math.round((a / b) * maxDim) for positive integers a, b
RoundScale(a, b) == (2 * a * MAX_DIM + b) \div (2 * b)

\* TargetDims that pins the longer side and leaves the shorter one alone
TargetDimsUnscaled(w, h) ==
    IF w > MAX_DIM \/ h > MAX_DIM
    THEN IF w > h
         THEN [width |-> MAX_DIM, height |-> h]
         ELSE [width |-> w, height |-> MAX_DIM]
    ELSE [width |-> w, height |-> h]

\* the width and height computed from the decoded bitmap
TargetDims(w, h) ==
    IF w > MAX_DIM \/ h > MAX_DIM
    THEN IF w > h
         THEN [width |-> MAX_DIM, height |-> RoundScale(h, w)]
         ELSE [width |-> RoundScale(w, h), height |-> MAX_DIM]
    ELSE [width |-> w, height |-> h]

\* the asset as it came in: same bytes, same MIME type
Original(f) ==
    [kind |-> "asset", content |-> "original", type |-> f.type,
     size |-> f.size]

\* the canvas re-encoded at quality 0.8 with the MIME type of the file
Reencoded(f, t) ==
    [kind |-> "asset", content |-> "reencoded", type |-> f.type,
     width |-> t.width, height |-> t.height]

\* worker.postMessage({ error: error.message })
PostedError(message) == [kind |-> "error", message |-> message]

\* a canvas without pixels cannot be encoded
Encodable(t) == t.width > 0 /\ t.height > 0

InitPre ==
    /\ ServerParked
    /\ CliParked
    /\ DropParked
    /\ pImpl \in PreImpls
    /\ file \in [size : FileSizes, type : FileTypes]
    /\ ppc = "start"
    /\ img = NoDims
    /\ target = NoDims
    /\ ops = {}
    /\ failed = "none"
    /\ delivered = Nothing

\* the helper is entered: small files are returned at once, larger ones
\* are handed to createImageBitmap
preprocessImage_start ==
    /\ pImpl \in Helpers /\ ppc = "start"
    /\ IF PassThrough(file)
       THEN /\ delivered' = Original(file)
            /\ ppc' = "done"
            /\ UNCHANGED ops
       ELSE /\ ops' = ops \cup {"decode"}
            /\ ppc' = "decoding"
            /\ UNCHANGED delivered
    /\ UNCHANGED <<pImpl, file, img, target, failed>>
    /\ UNCHANGED <<serverVars, cliVars, dropVars>>

\* what the helper's catch clause returns
HelperCatch(f) == Original(f)

\* createImageBitmap settles; dimensions, canvas, context, drawImage, toBlob
preprocessImage_decoded ==
    /\ pImpl \in Helpers /\ ppc = "decoding"
    /\ \/ /\ failed' = "decode"
          /\ delivered' = HelperCatch(file)
          /\ ppc' = "done"
          /\ UNCHANGED <<img, target, ops>>
       \/ \E w \in Dims, h \in Dims, ctx \in BOOLEAN :
            /\ img' = [width |-> w, height |-> h]
            /\ target' = TargetDims(w, h)
            /\ IF ctx
               THEN /\ ops' = ops \cup {"render", "encode"}
                    /\ ppc' = "encoding"
                    /\ UNCHANGED <<failed, delivered>>
               ELSE /\ failed' = "context"
                    /\ delivered' = HelperCatch(file)
                    /\ ppc' = "done"
                    /\ UNCHANGED ops
    /\ UNCHANGED <<pImpl, file>>
    /\ UNCHANGED <<serverVars, cliVars, dropVars>>

\* the toBlob callback runs: b ?? file, wrapped in a new File
preprocessImage_encoded ==
    /\ pImpl \in Helpers /\ ppc = "encoding"
    /\ \/ /\ Encodable(target)
          /\ delivered' = Reencoded(file, target)
          /\ UNCHANGED failed
       \/ /\ failed' = "encode"
          /\ delivered' = Original(file)
    /\ ppc' = "done"
    /\ UNCHANGED <<pImpl, file, img, target, ops>>
    /\ UNCHANGED <<serverVars, cliVars, dropVars>>

\* worker.onmessage: small files are posted back at once
worker_onmessage ==
    /\ pImpl = "worker" /\ ppc = "start"
    /\ IF PassThrough(file)
       THEN /\ delivered' = Original(file)
            /\ ppc' = "done"
            /\ UNCHANGED ops
       ELSE /\ ops' = ops \cup {"decode"}
            /\ ppc' = "decoding"
            /\ UNCHANGED delivered
    /\ UNCHANGED <<pImpl, file, img, target, failed>>
    /\ UNCHANGED <<serverVars, cliVars, dropVars>>

\* what the catch clause of worker.onmessage posts
WorkerCatch(message) == PostedError(message)

\* createImageBitmap settles in the worker
worker_decoded ==
    /\ pImpl = "worker" /\ ppc = "decoding"
    /\ \/ /\ failed' = "decode"
          /\ delivered' = WorkerCatch(DecodeErrorMessage)
          /\ ppc' = "done"
          /\ UNCHANGED <<img, target, ops>>
       \/ \E w \in Dims, h \in Dims, ctx \in BOOLEAN :
            /\ img' = [width |-> w, height |-> h]
            /\ target' = TargetDims(w, h)
            /\ IF ctx
               THEN /\ ops' = ops \cup {"render", "encode"}
                    /\ ppc' = "encoding"
                    /\ UNCHANGED <<failed, delivered>>
               ELSE /\ failed' = "context"
                    /\ delivered' = WorkerCatch(ContextErrorMessage)
                    /\ ppc' = "done"
                    /\ UNCHANGED ops
    /\ UNCHANGED <<pImpl, file>>
    /\ UNCHANGED <<serverVars, cliVars, dropVars>>

\* canvas.convertToBlob settles in the worker
worker_encoded ==
    /\ pImpl = "worker" /\ ppc = "encoding"
    /\ \/ /\ Encodable(target)
          /\ delivered' = Reencoded(file, target)
          /\ UNCHANGED failed
       \/ /\ failed' = "encode"
          /\ delivered' = WorkerCatch(EncodeErrorMessage)
    /\ ppc' = "done"
    /\ UNCHANGED <<pImpl, file, img, target, ops>>
    /\ UNCHANGED <<serverVars, cliVars, dropVars>>

NextPre ==
    \/ preprocessImage_start
    \/ preprocessImage_decoded
    \/ preprocessImage_encoded
    \/ worker_onmessage
    \/ worker_decoded
    \/ worker_encoded

SpecPre == InitPre /\ [][NextPre]_vars

\* ===================================================================
\* The pages: handleFileSelect with its progress callbacks.
\* "pageMutation" is unnamed/part_000 (the page at unnamed/part_001 lines
\* 641-790 has the same logic), "pageFetch" is unnamed/part_001 lines
\* 116-229.
\* ===================================================================

\* ------------------------------------------------------------------ bounds
\* the clock of the animation runs from 1 to MaxClock seconds
MaxClock == 22
\* a read or an upload reports 0..FileChunks of FileChunks bytes
FileChunks == 2

\* --------------------------------------------------------------- constants
\* duration = 3000 ms, minTime = 15000 ms, maxTime = 20000 ms, in seconds
Duration == 3
MinTime == 15
MaxTime == 20
\* Math.min(..., 95) and targetProgress = 99
CapAnimate == 95
TargetProgress == 99
\* (loaded / total) * 100, (loaded / total) * 30, 30 + (elapsed / minTime) * 69
ReadShare == 100
UploadShare == 30
CompressShare == 69
\* setProgress(100)
Complete == 100
TEN_MIB == 10 * 1024 * 1024

\* progress is counted in units of 1/PScale percent, which makes the value
\* of both animations an integer at every full second
PScale == MinTime
Full == Complete * PScale

Pages == {"pageMutation", "pageFetch"}
PickedTypes == {"image/png", "image/gif"}
PickedSizes == {TEN_MIB, TEN_MIB + 1}

UnsupportedTypeMessage ==
    "Unsupported file type. Please upload a PNG, JPEG, or WebP image."
TooLargeMessage ==
    "File size too large. Please upload an image smaller than 10MB."
ProcessFailedMessage == "Failed to process file"
CompressFailedMessage == "Failed to compress image"
InvalidResultMessage == "Invalid compression result received"
ServerErrorMessage == "Failed to fetch image"

\* error.message of a rejected mutateAsync
MutationErrors == {ServerErrorMessage, NetworkErrorMessage}
\* err.message of a rejected upload
UploadErrors == {NetworkErrorMessage}
\* what the fetch page throws between fetch and the result check
FetchErrors ==
    {NetworkErrorMessage, SyntaxErrorMessage, ServerErrorMessage,
     CompressFailedMessage, InvalidResultMessage}

\* --------------------------------------------------------- pure functions
MathMin(a, b) == IF a <= b THEN a ELSE b

\* AnimateProgress without Math.min
AnimateProgressUncapped(elapsed) ==
    (elapsed * CapAnimate * PScale) \div Duration

\* Math.min((elapsed / duration) * 95, 95)
AnimateProgress(elapsed) ==
    MathMin((elapsed * CapAnimate * PScale) \div Duration,
            CapAnimate * PScale)

\* UpdateProgress without the 30 of the upload stage
UpdateProgressFromZero(elapsed) ==
    MathMin((elapsed * CompressShare * PScale) \div MinTime,
            TargetProgress * PScale)

\* Math.min(30 + (elapsed / minTime) * 69, targetProgress)
UpdateProgress(elapsed) ==
    MathMin(UploadShare * PScale
              + (elapsed * CompressShare * PScale) \div MinTime,
            TargetProgress * PScale)

\* (event.loaded / event.total) * 100
ReadProgress(l, t) == (l * ReadShare * PScale) \div t

\* (progress.loaded / progress.total) * 30
UploadProgress(l, t) == (l * UploadShare * PScale) \div t

\* the cap of the page's animation
Cap(pg) ==
    IF pg = "pageMutation" THEN CapAnimate * PScale
    ELSE TargetProgress * PScale

InitCli ==
    /\ ServerParked
    /\ PreParked
    /\ DropParked
    /\ page \in Pages
    /\ cpc = "idle"
    /\ picked \in [type : PickedTypes, size : PickedSizes]
    /\ isLoading = FALSE
    /\ error = NoError
    /\ stage = "idle"
    /\ compressionResult \in {"none", "previous"}
    /\ prior = compressionResult
    /\ progress = IF compressionResult = "previous" THEN Full ELSE 0
    /\ now = 1
    /\ start = 0
    /\ scheduled = FALSE
    /\ loaded = 0
    /\ writer = "none"
    /\ outcome = "none"
    /\ failedStep = "none"

\* catch (err): setError, setIsLoading(false), setStage("idle")
Catch(message, step) ==
    /\ error' = message
    /\ isLoading' = FALSE
    /\ stage' = "idle"
    /\ cpc' = "done"
    /\ outcome' = "failure"
    /\ failedStep' = step

\* time passes while an animation frame is pending
Tick ==
    /\ scheduled
    /\ now < MaxClock
    /\ now' = now + 1
    /\ UNCHANGED <<page, cpc, picked, isLoading, error, stage, progress,
                   compressionResult, prior, start, scheduled, loaded,
                   writer, outcome, failedStep>>
    /\ UNCHANGED <<serverVars, preVars, dropVars>>

\* ------------------------------------------- the page with the mutation
\* handleFileSelect is called: the four setters, then await preprocessImage
handleFileSelect_start ==
    /\ page = "pageMutation" /\ cpc = "idle"
    /\ isLoading' = TRUE
    /\ error' = NoError
    /\ progress' = 0
    /\ writer' = "start"
    /\ stage' = "uploading"
    /\ cpc' = "preprocessing"
    /\ UNCHANGED <<page, picked, compressionResult, prior, now, start,
                   scheduled, loaded, outcome, failedStep>>
    /\ UNCHANGED <<serverVars, preVars, dropVars>>

\* preprocessImage has returned a file: reader.readAsDataURL(processedFile)
handleFileSelect_preprocessed ==
    /\ page = "pageMutation" /\ cpc = "preprocessing"
    /\ cpc' = "reading"
    /\ loaded' = 0
    /\ UNCHANGED <<page, picked, isLoading, error, stage, progress,
                   compressionResult, prior, now, start, scheduled,
                   writer, outcome, failedStep>>
    /\ UNCHANGED <<serverVars, preVars, dropVars>>

\* reader.onprogress: the events report non-decreasing byte counts
reader_onprogress ==
    /\ page = "pageMutation" /\ cpc = "reading"
    /\ \E l \in loaded..FileChunks, lengthComputable \in BOOLEAN :
         /\ loaded' = l
         /\ IF lengthComputable
            THEN /\ progress' = ReadProgress(l, FileChunks)
                 /\ writer' = "reader"
            ELSE UNCHANGED <<progress, writer>>
    /\ UNCHANGED <<page, cpc, picked, isLoading, error, stage,
                   compressionResult, prior, now, start, scheduled,
                   outcome, failedStep>>
    /\ UNCHANGED <<serverVars, preVars, dropVars>>

\* reader.onerror rejects with an event, which is not an Error
reader_onerror ==
    /\ page = "pageMutation" /\ cpc = "reading"
    /\ Catch(ProcessFailedMessage, "read")
    /\ UNCHANGED <<page, picked, progress, compressionResult, prior, now,
                   start, scheduled, loaded, writer>>
    /\ UNCHANGED <<serverVars, preVars, dropVars>>

\* reader.onload resolves: the compressing stage begins, the first frame
\* is requested and the mutation is sent
reader_onload ==
    /\ page = "pageMutation" /\ cpc = "reading"
    /\ stage' = "compressing"
    /\ progress' = 0
    /\ writer' = "enter"
    /\ start' = 0
    /\ scheduled' = TRUE
    /\ cpc' = "calling"
    /\ UNCHANGED <<page, picked, isLoading, error, compressionResult, prior,
                   now, loaded, outcome, failedStep>>
    /\ UNCHANGED <<serverVars, preVars, dropVars>>

\* a requested frame runs animate(timestamp)
animate ==
    /\ page = "pageMutation" /\ scheduled
    /\ LET s == IF start = 0 THEN now ELSE start
           p == AnimateProgress(now - s)
       IN  /\ start' = s
           /\ progress' = p
           /\ writer' = "timer"
           /\ scheduled' = (p < CapAnimate * PScale)
    /\ UNCHANGED <<page, cpc, picked, isLoading, error, stage,
                   compressionResult, prior, now, loaded, outcome,
                   failedStep>>
    /\ UNCHANGED <<serverVars, preVars, dropVars>>

\* the mutation succeeds: onSuccess runs and mutateAsync resolves
compressMutation_onSuccess ==
    /\ page = "pageMutation" /\ cpc = "calling"
    /\ compressionResult' = "fresh"
    /\ isLoading' = FALSE
    /\ stage' = "idle"
    /\ progress' = Full
    /\ writer' = "success"
    /\ cpc' = "done"
    /\ outcome' = "success"
    /\ UNCHANGED <<page, picked, error, prior, now, start, scheduled,
                   loaded, failedStep>>
    /\ UNCHANGED <<serverVars, preVars, dropVars>>

\* the mutation fails: onError runs, mutateAsync rejects into the catch
compressMutation_onError ==
    /\ page = "pageMutation" /\ cpc = "calling"
    /\ \E m \in MutationErrors : Catch(m, "compress")
    /\ UNCHANGED <<page, picked, progress, compressionResult, prior, now,
                   start, scheduled, loaded, writer>>
    /\ UNCHANGED <<serverVars, preVars, dropVars>>

\* ----------------------------------------------- the page with the fetch
\* handleFileSelect is called: the four setters, the two validations, then
\* await upload
handleFileSelectFetch_start ==
    /\ page = "pageFetch" /\ cpc = "idle"
    /\ progress' = 0
    /\ writer' = "start"
    /\ IF picked.type \notin SUPPORTED_MIME_TYPES
       THEN Catch(UnsupportedTypeMessage, "validation")
       ELSE IF picked.size > TEN_MIB
       THEN Catch(TooLargeMessage, "validation")
       ELSE /\ isLoading' = TRUE
            /\ error' = NoError
            /\ stage' = "uploading"
            /\ cpc' = "uploading"
            /\ UNCHANGED <<outcome, failedStep>>
    /\ UNCHANGED <<page, picked, compressionResult, prior, now, start,
                   scheduled, loaded>>
    /\ UNCHANGED <<serverVars, preVars, dropVars>>

\* onUploadProgress: an event without a total gives NaN and writes nothing
upload_onUploadProgress ==
    /\ page = "pageFetch" /\ cpc = "uploading"
    /\ \/ UNCHANGED <<progress, writer, loaded>>
       \/ \E l \in loaded..FileChunks :
            /\ loaded' = l
            /\ progress' = UploadProgress(l, FileChunks)
            /\ writer' = "upload"
    /\ UNCHANGED <<page, cpc, picked, isLoading, error, stage,
                   compressionResult, prior, now, start, scheduled,
                   outcome, failedStep>>
    /\ UNCHANGED <<serverVars, preVars, dropVars>>

\* upload rejects
upload_rejected ==
    /\ page = "pageFetch" /\ cpc = "uploading"
    /\ \E m \in UploadErrors : Catch(m, "upload")
    /\ UNCHANGED <<page, picked, progress, compressionResult, prior, now,
                   start, scheduled, loaded, writer>>
    /\ UNCHANGED <<serverVars, preVars, dropVars>>

\* upload resolves: the compressing stage begins, startTime = Date.now(),
\* the first frame is requested and the POST is sent
upload_resolved ==
    /\ page = "pageFetch" /\ cpc = "uploading"
    /\ stage' = "compressing"
    /\ start' = now
    /\ scheduled' = TRUE
    /\ cpc' = "calling"
    /\ UNCHANGED <<page, picked, isLoading, error, progress,
                   compressionResult, prior, now, loaded, writer, outcome,
                   failedStep>>
    /\ UNCHANGED <<serverVars, preVars, dropVars>>

\* a requested frame runs updateProgress()
updateProgress ==
    /\ page = "pageFetch" /\ scheduled
    /\ LET elapsed == now - start
           p == UpdateProgress(elapsed)
       IN  /\ progress' = p
           /\ writer' = "timer"
           /\ scheduled' = (elapsed < MaxTime /\ p < TargetProgress * PScale)
    /\ UNCHANGED <<page, cpc, picked, isLoading, error, stage,
                   compressionResult, prior, now, start, loaded, outcome,
                   failedStep>>
    /\ UNCHANGED <<serverVars, preVars, dropVars>>

\* the response is ok and the result is valid: cancelAnimationFrame and
\* the four setters
fetch_resolved ==
    /\ page = "pageFetch" /\ cpc = "calling"
    /\ scheduled' = FALSE
    /\ compressionResult' = "fresh"
    /\ isLoading' = FALSE
    /\ stage' = "idle"
    /\ progress' = Full
    /\ writer' = "success"
    /\ cpc' = "done"
    /\ outcome' = "success"
    /\ UNCHANGED <<page, picked, error, prior, now, start, loaded,
                   failedStep>>
    /\ UNCHANGED <<serverVars, preVars, dropVars>>

\* fetch rejects, the response is not ok, a body does not parse or the
\* result is invalid: the throw lands in the catch
fetch_rejected ==
    /\ page = "pageFetch" /\ cpc = "calling"
    /\ \E m \in FetchErrors : Catch(m, "compress")
    /\ UNCHANGED <<page, picked, progress, compressionResult, prior, now,
                   start, scheduled, loaded, writer>>
    /\ UNCHANGED <<serverVars, preVars, dropVars>>

NextCli ==
    \/ Tick
    \/ handleFileSelect_start
    \/ handleFileSelect_preprocessed
    \/ reader_onprogress
    \/ reader_onerror
    \/ reader_onload
    \/ animate
    \/ compressMutation_onSuccess
    \/ compressMutation_onError
    \/ handleFileSelectFetch_start
    \/ upload_onUploadProgress
    \/ upload_rejected
    \/ upload_resolved
    \/ updateProgress
    \/ fetch_resolved
    \/ fetch_rejected

SpecCli == InitCli /\ [][NextCli]_vars

\* ===================================================================
\* Files dropped on the fetch page while an earlier call of
\* handleFileSelect is still in flight (unnamed/part_001 lines 116-235)
\* ===================================================================

\* ------------------------------------------------------------------ bounds
\* number of files dropped
MaxDrops == 2
\* the clock runs from 1 to DropClock seconds
DropClock == 3

Reqs == 1..MaxDrops
NoFile == [type |-> "", size |-> 0]
NotDropped ==
    [pc |-> "notDropped", file |-> NoFile, start |-> 0, frame |-> FALSE,
     loaded |-> 0, outcome |-> "none"]
InFlight == {"uploading", "calling"}

\* the variables of a single-request run that a run with several drops
\* does not use
cliRest == <<page, cpc, picked, prior, start, scheduled, loaded, writer,
             outcome, failedStep>>

InitDrop ==
    /\ ServerParked
    /\ PreParked
    /\ page = "pageFetch"
    /\ cpc = "parked"
    /\ picked = NoFile
    /\ isLoading = FALSE
    /\ error = NoError
    /\ stage = "idle"
    /\ progress = 0
    /\ compressionResult = "none"
    /\ prior = "none"
    /\ now = 1
    /\ start = 0
    /\ scheduled = FALSE
    /\ loaded = 0
    /\ writer = "none"
    /\ outcome = "none"
    /\ failedStep = "none"
    /\ reqs = [r \in Reqs |-> NotDropped]
    /\ touchedBy = 0
    /\ resultOf = 0

\* catch (err) of call r
DropCatch(r, message) ==
    /\ error' = message
    /\ isLoading' = FALSE
    /\ stage' = "idle"
    /\ reqs' = [reqs EXCEPT ![r].pc = "done", ![r].outcome = "failure",
                            ![r].frame = reqs[r].frame]
    /\ touchedBy' = r

\* time passes while some animation frame is pending
Drop_Tick ==
    /\ \E r \in Reqs : reqs[r].frame
    /\ now < DropClock
    /\ now' = now + 1
    /\ UNCHANGED <<isLoading, error, stage, progress, compressionResult>>
    /\ UNCHANGED <<cliRest, dropVars, serverVars, preVars>>

\* handleDrop: file r is dropped, the first one on the idle page, the next
\* ones while the call before is in flight; handleFileSelect runs up to
\* await upload
Drop_handleDrop ==
    /\ \E r \in Reqs, f \in [type : PickedTypes, size : PickedSizes] :
         /\ reqs[r].pc = "notDropped"
         /\ IF r = 1 THEN TRUE ELSE reqs[r - 1].pc \in InFlight
         /\ progress' = 0
         /\ touchedBy' = r
         /\ IF f.type \notin SUPPORTED_MIME_TYPES \/ f.size > TEN_MIB
            THEN /\ error' = IF f.type \notin SUPPORTED_MIME_TYPES
                             THEN UnsupportedTypeMessage
                             ELSE TooLargeMessage
                 /\ isLoading' = FALSE
                 /\ stage' = "idle"
                 /\ reqs' = [reqs EXCEPT ![r].pc = "done",
                                         ![r].file = f,
                                         ![r].outcome = "failure"]
            ELSE /\ error' = NoError
                 /\ isLoading' = TRUE
                 /\ stage' = "uploading"
                 /\ reqs' = [reqs EXCEPT ![r].pc = "uploading",
                                         ![r].file = f]
    /\ UNCHANGED <<compressionResult, now, resultOf>>
    /\ UNCHANGED <<cliRest, serverVars, preVars>>

\* onUploadProgress of call r
Drop_onUploadProgress ==
    /\ \E r \in Reqs :
         /\ reqs[r].pc = "uploading"
         /\ \E l \in reqs[r].loaded..FileChunks :
              /\ reqs' = [reqs EXCEPT ![r].loaded = l]
              /\ progress' = UploadProgress(l, FileChunks)
              /\ touchedBy' = r
    /\ UNCHANGED <<isLoading, error, stage, compressionResult, now,
                   resultOf>>
    /\ UNCHANGED <<cliRest, serverVars, preVars>>

\* upload of call r rejects
Drop_uploadRejected ==
    /\ \E r \in Reqs, m \in UploadErrors :
         /\ reqs[r].pc = "uploading"
         /\ DropCatch(r, m)
    /\ UNCHANGED <<progress, compressionResult, now, resultOf>>
    /\ UNCHANGED <<cliRest, serverVars, preVars>>

\* upload of call r resolves: compressing, startTime, first frame, fetch
Drop_uploadResolved ==
    /\ \E r \in Reqs :
         /\ reqs[r].pc = "uploading"
         /\ stage' = "compressing"
         /\ reqs' = [reqs EXCEPT ![r].pc = "calling", ![r].start = now,
                                 ![r].frame = TRUE]
         /\ touchedBy' = r
    /\ UNCHANGED <<isLoading, error, progress, compressionResult, now,
                   resultOf>>
    /\ UNCHANGED <<cliRest, serverVars, preVars>>

\* the pending frame of call r runs its updateProgress
Drop_updateProgress ==
    /\ \E r \in Reqs :
         /\ reqs[r].frame
         /\ LET elapsed == now - reqs[r].start
                p == UpdateProgress(elapsed)
            IN  /\ progress' = p
                /\ reqs' = [reqs EXCEPT ![r].frame =
                              (elapsed < MaxTime
                               /\ p < TargetProgress * PScale)]
         /\ touchedBy' = r
    /\ UNCHANGED <<isLoading, error, stage, compressionResult, now,
                   resultOf>>
    /\ UNCHANGED <<cliRest, serverVars, preVars>>

\* the fetch of call r gives a valid result: its own frame is cancelled
Drop_fetchResolved ==
    /\ \E r \in Reqs :
         /\ reqs[r].pc = "calling"
         /\ reqs' = [reqs EXCEPT ![r].pc = "done", ![r].frame = FALSE,
                                 ![r].outcome = "success"]
         /\ compressionResult' = "fresh"
         /\ resultOf' = r
         /\ isLoading' = FALSE
         /\ stage' = "idle"
         /\ progress' = Full
         /\ touchedBy' = r
    /\ UNCHANGED <<error, now>>
    /\ UNCHANGED <<cliRest, serverVars, preVars>>

\* the fetch of call r fails or gives an invalid result
Drop_fetchRejected ==
    /\ \E r \in Reqs, m \in FetchErrors :
         /\ reqs[r].pc = "calling"
         /\ DropCatch(r, m)
    /\ UNCHANGED <<progress, compressionResult, now, resultOf>>
    /\ UNCHANGED <<cliRest, serverVars, preVars>>

NextDrop ==
    \/ Drop_Tick
    \/ Drop_handleDrop
    \/ Drop_onUploadProgress
    \/ Drop_uploadRejected
    \/ Drop_uploadResolved
    \/ Drop_updateProgress
    \/ Drop_fetchResolved
    \/ Drop_fetchRejected

SpecDrop == InitDrop /\ [][NextDrop]_vars

\* every awaited call settles: a handler that can resume does resume
SpecFair == Spec /\ WF_vars(Next)

\* ===================================================================
\* Properties
\* ===================================================================

IsSource(c) == c.method = "GET" /\ c.target = ImageUrl
IsShrink(c) == c.method = "POST" /\ c.target = ShrinkEndpoint
IsConvert(c) == c.method = "POST" /\ c.target = Loc1
IsFinal(c) == c.method = "GET" /\ c.target \in {Loc1, Loc2}

Count(P(_)) == Cardinality({i \in DOMAIN calls : P(calls[i])})

IsPending(c) == c.status = "pending"

\* position of a call in the protocol
Rank(c) ==
    CASE IsSource(c) -> 0
      [] IsShrink(c) -> 1
      [] IsConvert(c) -> 2
      [] IsFinal(c) -> 3

BadRequestCode == IF impl \in Routers THEN "BAD_REQUEST" ELSE "400"
InternalErrorCode == IF impl \in Routers THEN "INTERNAL_SERVER_ERROR" ELSE "500"

Succeeded == result.kind = "success"

\* C1 (as claimed): every success result of the compress.ts mutation and of
\* the POST handler has savedBytes = max(0, originalSize - compressedSize)
\* and compressionRatio = round(savedBytes / originalSize * 100), a value
\* in [0,100], also when the output is larger than the source.
C1_RatioFromClampedSavings ==
    (Succeeded /\ impl \in {"router", "route", "routeGet"}) =>
        /\ result.savedBytes =
              MathMax(0, result.originalSize - result.compressedSize)
        /\ result.compressionRatio =
              RoundPercent(result.savedBytes, result.originalSize)
        /\ result.compressionRatio \in 0..100

\* C2 (as claimed): in every success result of every implementation
\* savedBytes equals max(0, originalSize - compressedSize) and so is never
\* negative.
C2_SavedBytesNeverNegative ==
    Succeeded =>
        /\ result.savedBytes >= 0
        /\ result.savedBytes =
              MathMax(0, result.originalSize - result.compressedSize)

\* C3 (as claimed): when outputFormat equals mimeType no convert request is
\* ever issued (only the source fetch, the shrink POST and one GET of the
\* phase-1 location), and a success result has outputType = originalType
\* whatever type the phase-1 descriptor declares.
C3_SameFormatNoConvert ==
    (SchemaAccepts(input) /\ ~NeedsConvert(input)) =>
        /\ \A i \in DOMAIN calls :
              /\ ~IsConvert(calls[i])
              /\ IsSource(calls[i]) \/ IsShrink(calls[i]) \/ IsFinal(calls[i])
              /\ IsFinal(calls[i]) => calls[i].target = Loc1
        /\ Count(IsFinal) <= 1
        /\ Succeeded => result.outputType = result.originalType

C5_SuspectPngIsRejected ==
    (/\ pc = "done"
     /\ impl \in {"router", "route"}
     /\ SchemaAccepts(input) /\ NeedsConvert(input)
     /\ input.outputFormat = "image/png"
     /\ finalBytes > 0
     /\ SizeRatioBelow80(finalBytes, imageBuffer)) =>
        result.kind = "error"

\* C6 (as claimed): in the compress.ts mutation and in the POST handler a
\* success result exists only when every remote call of the request
\* returned success and, if a conversion took place, its lossless-size
\* check passed.
C6_SuccessOnlyAfterChecks ==
    (Succeeded /\ impl \in {"router", "route"}) =>
        /\ \A i \in DOMAIN calls : calls[i].status = "ok"
        /\ NeedsConvert(input) =>
              ~(/\ input.outputFormat = "image/png"
                /\ SizeRatioBelow80(finalBytes, imageBuffer))

\* C7 (as claimed): a conversion that went through a JSON descriptor and a
\* successful final fetch yields a result whose outputType and data
\* reference MIME both equal the requested outputFormat, with
\* compressionRatio > 0 when the final bytes are fewer than the source's.
C7_JsonConversionResult ==
    (Succeeded /\ NeedsConvert(input) /\ shape = "json") =>
        /\ result.outputType = input.outputFormat
        /\ result.compressedImage.mime = input.outputFormat
        /\ finalBytes < imageBuffer => result.compressionRatio > 0

\* C8 (as claimed): a shrink POST answered with a non-success status ends
\* the request with BAD_REQUEST / 400 carrying the upstream message, or the
\* default message when there is none, and no call follows it.
C8_RejectedShrinkIsUpstreamRejected ==
    \A i \in DOMAIN calls :
        (IsShrink(calls[i]) /\ calls[i].status = "notok") =>
            /\ i = Len(calls)
            /\ pc = "done"
            /\ result.kind = "error"
            /\ result.code = BadRequestCode
            /\ result.message =
                  IF errorData.parses /\ errorData.message # ""
                  THEN errorData.message ELSE "Failed to compress image"

\* C8 (amended): a shrink POST answered with a non-success status ends the
\* request and no call follows it; when the error body parses as JSON the
\* outcome is BAD_REQUEST / 400 with the upstream message, or the default
\* message if it has none; when the body does not parse the outcome is
\* INTERNAL_SERVER_ERROR / 500 with the parser's message.
C8_RejectedShrink ==
    \A i \in DOMAIN calls :
        (IsShrink(calls[i]) /\ calls[i].status = "notok") =>
            /\ i = Len(calls)
            /\ pc = "done"
            /\ errorData.read
            /\ result.kind = "error"
            /\ IF errorData.parses
               THEN /\ result.code = BadRequestCode
                    /\ result.message =
                          IF errorData.message # "" THEN errorData.message
                          ELSE "Failed to compress image"
               ELSE /\ result.code = InternalErrorCode
                    /\ result.message = SyntaxErrorMessage

\* a rejected shrink whose upstream message reached the caller
C8_Witness ==
    /\ Len(calls) >= 1
    /\ IsShrink(calls[Len(calls)])
    /\ calls[Len(calls)].status = "notok"
    /\ errorData.parses
    /\ errorData.message # ""
    /\ result.kind = "error"
    /\ result.message = errorData.message

\* C9: a convert POST answered with a non-success status ends the request
\* with "Failed to convert image format" (BAD_REQUEST / 400); the response
\* is not classified, no final fetch is issued and no result is returned.
C9_RejectedConvertIsTerminal ==
    \A i \in DOMAIN calls :
        (IsConvert(calls[i]) /\ calls[i].status = "notok") =>
            /\ i = Len(calls)
            /\ pc = "done"
            /\ result = Failure(BadRequestCode,
                                "Failed to convert image format")
            /\ shape = "none"
            /\ finalBytes = 0

\* phase 1 succeeded, phase 2 was rejected
C9_Witness ==
    /\ Len(calls) >= 2
    /\ IsConvert(calls[Len(calls)])
    /\ calls[Len(calls)].status = "notok"
    /\ IsShrink(calls[Len(calls) - 1])
    /\ calls[Len(calls) - 1].status = "ok"
    /\ data.url = Loc1
    /\ result.kind = "error"

\* C10: per request at most one shrink POST, one convert POST and one final
\* GET are issued, in that order, each only after the call before it
\* succeeded; nothing is issued after a failure and at most one call is in
\* flight at any time.
C10_OnePassInOrder ==
    /\ Count(IsShrink) <= 1
    /\ Count(IsConvert) <= 1
    /\ Count(IsFinal) <= 1
    /\ \A i, j \in DOMAIN calls :
          i < j => Rank(calls[i]) < Rank(calls[j])
    /\ \A i \in DOMAIN calls : i > 1 => calls[i - 1].status = "ok"
    /\ Count(IsPending) <= 1
    /\ pc = "done" => Count(IsPending) = 0

\* a request that went through all four calls
C10_Witness ==
    /\ pc = "done"
    /\ Len(calls) = 4
    /\ IsShrink(calls[2]) /\ IsConvert(calls[3]) /\ IsFinal(calls[4])
    /\ \A i \in DOMAIN calls : calls[i].status = "ok"

\* C11: every invocation, whatever its remote calls answer, ends, and ends
\* with exactly one outcome: the handler is finished exactly when it has
\* produced one success result or one error, and an outcome once produced
\* is never replaced.
C11_ExactlyOneOutcome ==
    /\ <>(pc = "done")
    /\ [](pc = "done" <=> result.kind \in {"success", "error"})
    /\ [][result.kind # "none" => result' = result]_vars

\* a request that ended on an unparsable phase-2 descriptor
C11_Witness ==
    /\ pc = "done"
    /\ shape = "json"
    /\ calls[Len(calls)].status = "ok"
    /\ result.kind = "error"
    /\ result.message = SyntaxErrorMessage

\* C12: an asset of at most 5 MiB (boundary included) comes back as it
\* went in, same bytes and same MIME type, and is never decoded, rendered
\* or re-encoded.
C12_SmallAssetUntouched ==
    (ppc # "parked" /\ file.size <= FIVE_MIB) =>
        /\ ppc \in {"start", "done"}
        /\ ops = {}
        /\ img = NoDims
        /\ ppc = "done" =>
              /\ delivered.kind = "asset"
              /\ delivered.content = "original"
              /\ delivered.size = file.size
              /\ delivered.type = file.type

\* an asset of exactly 5 MiB was returned
C12_Witness ==
    /\ ppc = "done"
    /\ file.size = FIVE_MIB
    /\ delivered.kind = "asset"
    /\ delivered.content = "original"

Longer(d) == MathMax(d.width, d.height)
Shorter(d) == IF d.width <= d.height THEN d.width ELSE d.height
Abs(x) == IF x >= 0 THEN x ELSE 0 - x

\* C13: for an asset over 5 MiB with a decoded side above 2048 the target
\* has its longer side at exactly 2048 and its shorter side at
\* round(shorter * 2048 / longer), which keeps the aspect ratio within one
\* pixel and the orientation; with both sides at most 2048 the dimensions
\* are unchanged.
C13_TargetDimensions ==
    (file.size > FIVE_MIB /\ img # NoDims) =>
        IF Longer(img) > MAX_DIM
        THEN /\ Longer(target) = MAX_DIM
             /\ Shorter(target) = RoundScale(Shorter(img), Longer(img))
             /\ Abs(Shorter(target) * Longer(img) - Shorter(img) * MAX_DIM)
                   <= Longer(img)
             /\ img.width > img.height => target.width = MAX_DIM
             /\ img.width <= img.height => target.height = MAX_DIM
        ELSE target = img

\* 4096x2048 became 2048x1024
C13_Witness ==
    /\ file.size > FIVE_MIB
    /\ img = [width |-> 2 * MAX_DIM, height |-> MAX_DIM]
    /\ target = [width |-> MAX_DIM, height |-> MAX_DIM \div 2]

CompressFailed == outcome = "failure" /\ failedStep = "compress"

\* C15: a progress-timer callback never leaves progress above the cap of
\* its animation (95 for animate, 99 for updateProgress), whatever the
\* elapsed time, and a step taken while stage = compressing writes 100 only
\* if it is the completion-on-success handler.
C15_TimerStaysUnderCap ==
    /\ [](writer = "timer" => progress <= Cap(page))
    /\ [][(stage = "compressing" /\ progress' = Full) =>
             (writer' = "success" /\ outcome' = "success")]_vars

\* animate ran more than the animation's duration after its start, before
\* the call completed, and wrote the cap
C15_Witness ==
    /\ page = "pageMutation"
    /\ stage = "compressing"
    /\ outcome = "none"
    /\ writer = "timer"
    /\ start # 0
    /\ now - start > Duration
    /\ progress = CapAnimate * PScale

\* C16 (as claimed): once the compress call has completed successfully,
\* progress is 100, stage is idle, no timer callback is pending and none
\* has written progress since.
C16_SuccessStaysFull ==
    outcome = "success" =>
        /\ progress = Full
        /\ stage = "idle"
        /\ ~scheduled
        /\ writer = "success"

\* C17 (as claimed): once the compress call has failed, no timer callback
\* is pending and progress is not modified again.
C17_FailureStopsTimer ==
    /\ [](CompressFailed => ~scheduled)
    /\ [][CompressFailed => progress' = progress]_vars

\* C18: progress stays within [0, 100], and a step that stays within the
\* uploading or the compressing stage never lowers it.
C18_MonotoneWithinStage ==
    /\ [](progress >= 0 /\ progress <= Full)
    /\ [][(stage' = stage /\ stage \in {"uploading", "compressing"}) =>
             progress' >= progress]_vars

\* the upload reported all bytes and the timer then moved progress on
C18_Witness ==
    /\ page = "pageFetch"
    /\ stage = "compressing"
    /\ loaded = FileChunks
    /\ writer = "timer"
    /\ progress > UploadShare * PScale
    /\ progress < TargetProgress * PScale

\* C19 (as claimed): every step that changes the stage leaves progress at
\* 0, except the final step of a successful request, which leaves it at
\* 100.
C19_TransitionsResetProgress ==
    [][stage' # stage =>
          progress' = IF outcome' = "success" THEN Full ELSE 0]_vars

\* C20 (as claimed): a failed request ends with an error message, not
\* loading, stage idle, progress reset to 0 and the compression result it
\* had before.
C20_FailureResetsState ==
    outcome = "failure" =>
        /\ error # NoError
        /\ ~isLoading
        /\ stage = "idle"
        /\ progress = 0
        /\ compressionResult = prior

\* C21: a request whose mimeType or outputFormat is not one of image/png,
\* image/jpeg, image/jpg, image/webp, image/avif ends with an error at its
\* first step and never issues a remote call: no source fetch, no shrink
\* POST, no convert POST.
C21_UnsupportedTypeRejectedBeforeCalls ==
    (\/ input.mimeType \notin
           {"image/png", "image/jpeg", "image/jpg", "image/webp", "image/avif"}
     \/ input.outputFormat \notin
           {"image/png", "image/jpeg", "image/jpg", "image/webp", "image/avif"})
    =>
        /\ calls = << >>
        /\ pc \in {"start", "done"}
        /\ pc = "done" => result.kind = "error"
        /\ imageBuffer = 0

\* a request with a supported source type and an unsupported target type
\* was rejected
C21_Witness ==
    /\ pc = "done"
    /\ input.mimeType = "image/png"
    /\ input.outputFormat = "image/gif"
    /\ result.kind = "error"
    /\ calls = << >>

\* C22: a successful phase-2 response is classified by its content type.
\* With application/json the descriptor is read and one GET follows, to
\* the descriptor's location and not to the phase-1 location (a body that
\* does not parse ends the request with the parser's error instead); with
\* any other or no content type the body is the final image and no fetch
\* follows.
C22_ClassifiedByContentType ==
    \A i \in DOMAIN calls :
        (IsConvert(calls[i]) /\ calls[i].status = "ok") =>
            /\ shape \in {"json", "binary"}
            /\ shape = "binary" =>
                  /\ i = Len(calls)
                  /\ pc = "done"
                  /\ Count(IsFinal) = 0
                  /\ finalBytes > 0
                  /\ Succeeded => result.compressedImage.bytes = finalBytes
            /\ shape = "json" =>
                  IF i = Len(calls)
                  THEN /\ pc = "done"
                       /\ result.kind = "error"
                       /\ result.message = SyntaxErrorMessage
                  ELSE /\ Len(calls) = i + 1
                       /\ calls[i + 1].method = "GET"
                       /\ calls[i + 1].target = Loc2
                       /\ calls[i + 1].target # data.url
                       /\ Count(IsFinal) = 1

\* the POST handler fetched the converted image from the descriptor's
\* location
C22_Witness ==
    /\ impl = "route"
    /\ shape = "json"
    /\ Succeeded
    /\ Count(IsFinal) = 1
    /\ calls[Len(calls)].target = Loc2
    /\ result.compressedImage.bytes = finalBytes

\* C23 (as claimed): every phase-2 convert request carries a preserve list
\* that is non-empty exactly when options.preserveMetadata is true, and
\* empty when the option is false or absent.
C23_PreserveFollowsOption ==
    \A i \in DOMAIN calls :
        IsConvert(calls[i]) =>
            (calls[i].preserve # {} <=> input.preserveMetadata = "true")

\* C24 (as claimed): a success result whose outputType differs from its
\* originalType was preceded by a convert POST to the phase-1 location
\* that carried convert.type = outputType and returned success.
C24_ConvertedOnlyAfterConvertRequest ==
    (Succeeded /\ result.outputType # result.originalType) =>
        \E i \in DOMAIN calls :
            /\ IsConvert(calls[i])
            /\ calls[i].convert = result.outputType
            /\ calls[i].status = "ok"

\* C25 (as claimed): in the POST handler a request for image/png whose
\* final bytes were obtained is rejected exactly when final size / source
\* size < 0.8, whether or not a conversion took place; at exactly 80% or
\* above it succeeds.
C25_PngCheckOnEveryPngRequest ==
    (/\ pc = "done"
     /\ impl = "route"
     /\ SchemaAccepts(input)
     /\ input.outputFormat = "image/png"
     /\ finalBytes > 0) =>
        IF SizeRatioBelow80(finalBytes, imageBuffer)
        THEN result.kind = "error"
        ELSE Succeeded

\* C26 (as claimed): in every success result of the compress mutation
\* originalSize is the byte length of the source image sent to the shrink
\* endpoint, on the binary phase-2 path too.
C26_OriginalSizeIsSourceSize ==
    (Succeeded /\ impl \in Routers) =>
        result.originalSize = imageBuffer

\* C27 (as claimed): in every success result of the compress mutation
\* compressedSize is the byte length of the payload encoded in
\* compressedImage, and the MIME type of the data reference is the
\* reported outputType.
C27_CompressedSizeIsPayloadSize ==
    (Succeeded /\ impl \in Routers) =>
        /\ result.compressedSize = result.compressedImage.bytes
        /\ result.compressedImage.bytes = finalBytes
        /\ result.compressedImage.mime = result.outputType

\* C28 (as claimed): for every decoded image the target width and height
\* are at least 1, at most the corresponding input dimension, and at most
\* 2048.
C28_TargetWithinBounds ==
    img # NoDims =>
        /\ target.width >= 1
        /\ target.height >= 1
        /\ target.width <= img.width
        /\ target.height <= img.height
        /\ target.width <= MAX_DIM
        /\ target.height <= MAX_DIM

\* the newest file dropped so far (0: none)
Latest ==
    IF \A r \in Reqs : reqs[r].pc = "notDropped" THEN 0
    ELSE CHOOSE r \in Reqs :
            /\ reqs[r].pc # "notDropped"
            /\ \A q \in Reqs : reqs[q].pc # "notDropped" => q <= r

\* C29 (as claimed): once a later file has been dropped, the React state
\* is only ever written by the call that handles the newest file, and when
\* all calls have finished and the newest one succeeded, compressionResult
\* is its result.
C29_RequestsDoNotInterfere ==
    /\ touchedBy = Latest
    /\ ((\A r \in Reqs : reqs[r].pc = "done")
        /\ reqs[MaxDrops].outcome = "success") => resultOf = MaxDrops

\* the download link: compressionResult && !isLoading
DownloadOffered == compressionResult # "none" /\ ~isLoading

\* C30 (as claimed): once a request has been started, the result of an
\* earlier request is never offered for download again; in particular it
\* does not coexist with the error of the new request.
C30_NoResultPersists ==
    (cpc \notin {"idle", "parked"} /\ compressionResult = "previous") =>
        ~DownloadOffered

====
